---- MODULE Spec2Model ----
(***************************************************************************)
(* Booking consistency engine of the appointment-booking system:           *)
(* AppointmentService.bookAppointment / cancelAppointment and the overlap  *)
(* predicate, over a MongoDB appointment collection and the BookingLock    *)
(* collection (unique lockKey, 30 second TTL).                             *)
(*                                                                         *)
(* Instants are minutes since the UTC midnight of day 0 (a JS Date is a    *)
(* number of milliseconds; every instant used here is a whole minute).     *)
(***************************************************************************)
EXTENDS Integers, Sequences, FiniteSets, TLC

VARIABLES
    appts,         \* committed Appointment documents, indexed by _id (1..Len)
    locks,         \* BookingLock documents: [lockKey, owner]
    now,           \* the wall clock read by new Date()
    tz,            \* offset of the server's local time zone from UTC, minutes
    pc,            \* position of each bookAppointment call
    data,          \* BookingData of each bookAppointment call
    lockAcquired,  \* local lockAcquired of each call
    overlap,       \* local overlap (document found by checkOverlap) of each call
    txn,           \* state of the call's session transaction
    result,        \* how the call ended, as seen by its caller
    message,       \* message of the ValidationError of step 1 ("" if none)
    doc,           \* the document built by Appointment.create, not yet committed
    fault,         \* storage operations that failed during each call
    cpc,           \* position of each cancelAppointment call
    cid,           \* appointmentId of each cancelAppointment call
    cresult,       \* how each cancelAppointment call ended
    ov,            \* inputs and result of one slotsOverlap evaluation
    q              \* inputs and result of one read-only query

vars == <<appts, locks, now, tz, pc, data, lockAcquired, overlap, txn, result,
          message, doc, fault, cpc, cid, cresult, ov, q>>

bookVars   == <<pc, data, lockAcquired, overlap, txn, result, message, doc,
               fault>>
cancelVars == <<cpc, cid, cresult>>

----------------------------------------------------------------------------
(* Bounds                                                                  *)

MaxCalls == 2      \* calls (bookAppointment or cancelAppointment) of one run
MaxT     == 4      \* instants 0..MaxT of the slotsOverlap evaluations

Calls   == 1..MaxCalls       \* bookAppointment calls
Cancels == 1..MaxCalls       \* cancelAppointment calls
Doctors == {1, 2}

MinutesPerDay == 24 * 60
Day1          == MinutesPerDay          \* 00:00 UTC of the day after day 0
NowInit       == 12 * 60                \* clock at start: day 0, 12:00 UTC

\* Requested <<start, end>> ranges.
Ranges ==
    { <<Day1 + 540, Day1 + 600>>,      \* 09:00-10:00
      <<Day1 + 560, Day1 + 630>>,      \* 09:20-10:30, overlaps 09:00-10:00
      <<Day1 + 540, Day1 + 550>>,      \* 09:00-09:10
      <<Day1 + 550, Day1 + 560>>,      \* 09:10-09:20: same 30-minute bucket as
                                       \*   09:00-09:10, adjacent to it and to
                                       \*   09:20-10:30
      <<Day1 + 570, Day1 + 540>>,      \* start after end
      <<Day1 + 1005, Day1 + 1035>>,    \* 16:45-17:15
      <<540, 570>>,                    \* day 0 09:00-09:30, already past
      <<NowInit, NowInit + 30>> }      \* starts exactly now

NULL == [none |-> TRUE]

----------------------------------------------------------------------------
(* Program constants                                                       *)

SlotSize    == 30     \* generateLockKey: slotSize, in minutes
ClinicStart == 9      \* CLINIC_START_HOUR default
ClinicEnd   == 17     \* CLINIC_END_HOUR default

----------------------------------------------------------------------------
(* Date accessors                                                          *)

UTCHours(t)     == (t % MinutesPerDay) \div 60
UTCMinutes(t)   == t % 60
LocalHours(t)   == ((t + tz) % MinutesPerDay) \div 60
LocalMinutes(t) == (t + tz) % 60
DateString(t)   == (t + tz) \div MinutesPerDay     \* toDateString(): local day

----------------------------------------------------------------------------
(* Pure functions of AppointmentService                                    *)

\* slotsOverlap with the comparisons made inclusive.
slotsOverlapInclusive(start1, end1, start2, end2) ==
    start1 <= end2 /\ start2 <= end1

\* slotsOverlap testing only whether the second interval starts inside the
\* first.
slotsOverlapStartInside(start1, end1, start2, end2) ==
    start1 <= start2 /\ start2 < end1

slotsOverlap(start1, end1, start2, end2) == start1 < end2 /\ start2 < end1

\* generateLockKey with the doctor left out of the key.
generateLockKeyNoDoctor(doctorId, start, end) ==
    <<0, start \div SlotSize, end \div SlotSize>>

generateLockKey(doctorId, start, end) ==
    <<doctorId, start \div SlotSize, end \div SlotSize>>

\* validateAppointmentTimes with start > end in place of start >= end.
validateAppointmentTimesStrict(start, end) ==
    IF start > end THEN "Start time must be before end time"
    ELSE IF DateString(start) # DateString(end)
         THEN "Appointments must be within the same day"
         ELSE "ok"

\* validateAppointmentTimes without the toDateString comparison.
validateAppointmentTimesNoDay(start, end) ==
    IF start >= end THEN "Start time must be before end time" ELSE "ok"

\* The three validators of step 1; "ok" or the message of the ValidationError.
validateAppointmentTimes(start, end) ==
    IF start >= end THEN "Start time must be before end time"
    ELSE IF DateString(start) # DateString(end)
         THEN "Appointments must be within the same day"
         ELSE "ok"

validateWorkingHours(start, end) ==
    IF UTCHours(start) < ClinicStart
          \/ (UTCHours(start) = ClinicStart /\ UTCMinutes(start) < 0)
    THEN "Appointments cannot start before"
    ELSE IF UTCHours(end) > ClinicEnd
              \/ (UTCHours(end) = ClinicEnd /\ UTCMinutes(end) > 0)
         THEN "Appointments cannot end after"
         ELSE "ok"

validateNotInPast(start) ==
    IF start < now THEN "Cannot book appointments in the past" ELSE "ok"

Validate(start, end) ==
    IF validateAppointmentTimes(start, end) # "ok"
    THEN validateAppointmentTimes(start, end)
    ELSE IF validateWorkingHours(start, end) # "ok"
         THEN validateWorkingHours(start, end)
         ELSE validateNotInPast(start)

\* The schema checks without the pre("save") hook.
SchemaValidateNoHook(start, end) ==
    /\ start > now
    /\ end > start

\* Appointment schema checks run by Appointment.create: the start and end
\* validators and the pre("save") hook.
SchemaValidate(start, end) ==
    /\ start > now
    /\ end > start
    /\ DateString(start) = DateString(end)
    /\ ~ ( LocalHours(start) < ClinicStart
           \/ LocalHours(end) > ClinicEnd
           \/ (LocalHours(end) = ClinicEnd /\ LocalMinutes(end) > 0) )

\* The query of checkOverlap without its status filter.
OverlapMatchesAnyStatus(doctorId, start, end) ==
    { i \in 1..Len(appts) :
        /\ appts[i].doctorId = doctorId
        /\ appts[i].start < end
        /\ appts[i].end > start }

\* The query of checkOverlap with $lte / $gte in place of $lt / $gt.
OverlapMatchesInclusive(doctorId, start, end) ==
    { i \in 1..Len(appts) :
        /\ appts[i].doctorId = doctorId
        /\ appts[i].status = "BOOKED"
        /\ appts[i].start <= end
        /\ appts[i].end >= start }

\* The query of checkOverlap matching only documents that start inside the
\* requested range.
OverlapMatchesStartInside(doctorId, start, end) ==
    { i \in 1..Len(appts) :
        /\ appts[i].doctorId = doctorId
        /\ appts[i].status = "BOOKED"
        /\ appts[i].start >= start
        /\ appts[i].start < end }

\* Documents matched by the query of checkOverlap.
OverlapMatches(doctorId, start, end) ==
    { i \in 1..Len(appts) :
        /\ appts[i].doctorId = doctorId
        /\ appts[i].status = "BOOKED"
        /\ appts[i].start < end
        /\ appts[i].end > start }

----------------------------------------------------------------------------
(* getAvailableSlots and generateTimeSlots                                 *)

\* new Date(date).setHours(h, 0, 0, 0): h o'clock, server time, on the
\* server's calendar day of `date`.
SetHours(date, h) == DateString(date) * MinutesPerDay + h * 60 - tz

\* generateTimeSlots with slotEnd < end in place of slotEnd <= end.
RECURSIVE generateTimeSlotsStrict(_, _, _)
generateTimeSlotsStrict(start, end, slotMinutes) ==
    IF ~(start < end) THEN << >>
    ELSE LET slotEnd == start + slotMinutes
         IN (IF slotEnd < end
             THEN << [start |-> start, end |-> slotEnd] >>
             ELSE << >>)
            \o generateTimeSlotsStrict(start + slotMinutes, end, slotMinutes)

\* The while loop of generateTimeSlots; `start` is the loop's `current`.
\* (The clock of the server keeps one offset from UTC, so setMinutes adds
\* slotMinutes minutes.)
\* The operator is the value of the loop for slotMinutes >= 1; the loop
\* itself, for any slotMinutes, is LoopIteration and LoopReturn below.
RECURSIVE generateTimeSlots(_, _, _)
generateTimeSlots(start, end, slotMinutes) ==
    IF ~(start < end) THEN << >>
    ELSE LET slotEnd == start + slotMinutes
         IN (IF slotEnd <= end
             THEN << [start |-> start, end |-> slotEnd] >>
             ELSE << >>)
            \o generateTimeSlots(start + slotMinutes, end, slotMinutes)

\* The Appointment.find of getAvailableSlots without its status filter.
bookedAppointmentsAnyStatus(doctorId, startOfDay, endOfDay) ==
    { i \in 1..Len(appts) :
        /\ appts[i].doctorId = doctorId
        /\ appts[i].start >= startOfDay
        /\ appts[i].start < endOfDay }

\* Documents returned by the Appointment.find of getAvailableSlots.
bookedAppointments(doctorId, startOfDay, endOfDay) ==
    { i \in 1..Len(appts) :
        /\ appts[i].doctorId = doctorId
        /\ appts[i].status = "BOOKED"
        /\ appts[i].start >= startOfDay
        /\ appts[i].start < endOfDay }

\* getAvailableSlots filtering the grid by appointments of any status.
getAvailableSlotsAnyStatus(doctorId, date, slotMinutes) ==
    LET startOfDay == SetHours(date, ClinicStart)
        endOfDay   == SetHours(date, ClinicEnd)
        booked     == bookedAppointmentsAnyStatus(doctorId, startOfDay,
                                                  endOfDay)
        allSlots   == generateTimeSlots(startOfDay, endOfDay, slotMinutes)
        noOverlap(slot) ==
            ~ \E i \in booked :
                slotsOverlap(slot.start, slot.end, appts[i].start, appts[i].end)
    IN SelectSeq(allSlots, noOverlap)

getAvailableSlots(doctorId, date, slotMinutes) ==
    LET startOfDay == SetHours(date, ClinicStart)
        endOfDay   == SetHours(date, ClinicEnd)
        booked     == bookedAppointments(doctorId, startOfDay, endOfDay)
        allSlots   == generateTimeSlots(startOfDay, endOfDay, slotMinutes)
        noOverlap(slot) ==
            ~ \E i \in booked :
                slotsOverlap(slot.start, slot.end, appts[i].start, appts[i].end)
    IN SelectSeq(allSlots, noOverlap)

----------------------------------------------------------------------------
(* getAppointmentsByDoctorAndDate                                          *)

\* Orders of the documents S by start descending.
sortByStartDescending(S) ==
    { f \in [1..Cardinality(S) -> S] :
        /\ \A i, j \in 1..Cardinality(S) : i # j => f[i] # f[j]
        /\ \A i, j \in 1..Cardinality(S) :
              i < j => appts[f[i]].start >= appts[f[j]].start }

\* .sort({ start: 1 }): the orders of the documents S by start ascending
\* (documents with equal start come in any order).
sortByStart(S) ==
    { f \in [1..Cardinality(S) -> S] :
        /\ \A i, j \in 1..Cardinality(S) : i # j => f[i] # f[j]
        /\ \A i, j \in 1..Cardinality(S) :
              i < j => appts[f[i]].start <= appts[f[j]].start }

\* Documents matched by the Appointment.find of
\* getAppointmentsByDoctorAndDate: start from 00:00:00.000 to 23:59:59.999,
\* server time, of the day of `date`; an instant is a whole number of
\* milliseconds, so start <= 23:59:59.999 is start < the next midnight.
appointmentsOfDay(doctorId, date) ==
    { i \in 1..Len(appts) :
        /\ appts[i].doctorId = doctorId
        /\ appts[i].start >= SetHours(date, 0)
        /\ appts[i].start < SetHours(date, 0) + MinutesPerDay }

\* The lists getAppointmentsByDoctorAndDate can return.
getAppointmentsByDoctorAndDate(doctorId, date) ==
    { [i \in DOMAIN f |-> appts[f[i]]] :
        f \in sortByStart(appointmentsOfDay(doctorId, date)) }

----------------------------------------------------------------------------
(* ClientSession.abortTransaction: it throws MongoTransactionError when no *)
(* transaction is in progress (never started, already aborted, or          *)
(* committed); otherwise the transaction becomes aborted.                  *)

abortThrows(t) == t # "active"

\* The catch block wrapping every error in an AppointmentBookingError.
catchRethrowAsConflict(t, error) == "AppointmentBookingError"

\* The error that leaves the inner catch block of bookAppointment, which
\* awaits session.abortTransaction() before rethrowing `error`.
catchRethrow(t, error) ==
    IF abortThrows(t) THEN "MongoTransactionError" ELSE error

----------------------------------------------------------------------------
(* Initial state                                                           *)

NoData == [doctorId |-> 0, patientId |-> 0, start |-> 0, end |-> 0]
NoQuery == [op |-> "none"]
NoOv   == [start1 |-> 0, end1 |-> 1, start2 |-> 0, end2 |-> 1,
           res |-> TRUE, done |-> TRUE]

\* The store a run starts from: empty, or holding one appointment booked
\* earlier (by patient 0 with doctor 1, 09:00-10:00 on day 1).
InitialStores ==
    { << >>,
      << [doctorId |-> 1, patientId |-> 0, start |-> Day1 + 540,
          end |-> Day1 + 600, status |-> "BOOKED",
          createdAt |-> 0, updatedAt |-> 0] >> }

InitStore ==
    /\ appts \in InitialStores
    /\ locks = {}
    /\ now = NowInit
    /\ tz = 0

InitCalls ==
    /\ pc = [c \in Calls |-> "idle"]
    /\ data = [c \in Calls |-> NoData]
    /\ lockAcquired = [c \in Calls |-> FALSE]
    /\ overlap = [c \in Calls |-> NULL]
    /\ txn = [c \in Calls |-> "none"]
    /\ result = [c \in Calls |-> "none"]
    /\ message = [c \in Calls |-> ""]
    /\ doc = [c \in Calls |-> NULL]
    /\ fault = [c \in Calls |-> {}]
    /\ cpc = [k \in Cancels |-> "idle"]
    /\ cid = [k \in Cancels |-> 0]
    /\ cresult = [k \in Cancels |-> "none"]

Init == InitStore /\ InitCalls /\ ov = NoOv /\ q = NoQuery

\* Number of calls started so far.
Started ==
    Cardinality({c \in Calls : pc[c] # "idle"})
      + Cardinality({k \in Cancels : cpc[k] # "idle"})

----------------------------------------------------------------------------
(* bookAppointment, one action per await point                             *)

\* bookAppointment with BookingLock.create moved ahead of the validators.
StartBookingLockFirst(c, d, r) ==
    /\ pc[c] = "idle"
    /\ Started < MaxCalls
    /\ \A b \in Calls : b < c => pc[b] # "idle"
    /\ data' = [data EXCEPT ![c] = [doctorId |-> d, patientId |-> c,
                                    start |-> r[1], end |-> r[2]]]
    /\ locks' = locks \cup {[lockKey |-> generateLockKey(d, r[1], r[2]),
                             owner |-> c]}
    /\ IF Validate(r[1], r[2]) = "ok"
       THEN /\ pc' = [pc EXCEPT ![c] = "check"]
            /\ lockAcquired' = [lockAcquired EXCEPT ![c] = TRUE]
            /\ UNCHANGED <<result, message>>
       ELSE /\ pc' = [pc EXCEPT ![c] = "done"]
            /\ result' = [result EXCEPT ![c] = "ValidationError"]
            /\ message' = [message EXCEPT ![c] = Validate(r[1], r[2])]
            /\ UNCHANGED lockAcquired
    /\ UNCHANGED <<appts, now, tz, overlap, txn, doc, fault, cancelVars, ov, q>>

\* Entry and step 1: the three validators, before any storage access.
\* Calls are started in index order; the patient of call c is patient c.
StartBooking(c, d, r) ==
    /\ pc[c] = "idle"
    /\ Started < MaxCalls
    /\ \A b \in Calls : b < c => pc[b] # "idle"
    /\ data' = [data EXCEPT ![c] = [doctorId |-> d, patientId |-> c,
                                    start |-> r[1], end |-> r[2]]]
    /\ IF Validate(r[1], r[2]) = "ok"
       THEN /\ pc' = [pc EXCEPT ![c] = "lock"]
            /\ UNCHANGED <<result, message>>
       ELSE /\ pc' = [pc EXCEPT ![c] = "done"]
            /\ result' = [result EXCEPT ![c] = "ValidationError"]
            /\ message' = [message EXCEPT ![c] = Validate(r[1], r[2])]
    /\ UNCHANGED <<appts, locks, now, tz, lockAcquired, overlap, txn, doc, fault,
                   cancelVars, ov, q>>

LockKeyOf(c) == generateLockKey(data[c].doctorId, data[c].start, data[c].end)

\* Steps 2-3: BookingLock.create({lockKey}); the unique index on lockKey
\* rejects a second document with error code 11000.
AcquireLock(c) ==
    /\ pc[c] = "lock"
    /\ IF \E l \in locks : l.lockKey = LockKeyOf(c)
       THEN /\ pc' = [pc EXCEPT ![c] = "done"]
            /\ result' = [result EXCEPT ![c] = "AppointmentBookingError"]
            /\ UNCHANGED <<locks, lockAcquired>>
       ELSE /\ locks' = locks \cup {[lockKey |-> LockKeyOf(c), owner |-> c]}
            /\ lockAcquired' = [lockAcquired EXCEPT ![c] = TRUE]
            /\ pc' = [pc EXCEPT ![c] = "check"]
            /\ result' = result
    /\ UNCHANGED <<appts, now, tz, data, overlap, txn, message, doc, fault,
                   cancelVars, ov, q>>

\* The overlap check taking any lock another call holds for the doctor as
\* a conflict.
CheckOverlapLockScan(c) ==
    /\ pc[c] = "check"
    /\ IF \/ OverlapMatches(data[c].doctorId, data[c].start, data[c].end) # {}
          \/ \E l \in locks : l.owner # c /\ l.lockKey[1] = data[c].doctorId
       THEN /\ txn' = [txn EXCEPT ![c] = "aborted"]
            /\ result' = [result EXCEPT ![c] = "AppointmentBookingError"]
            /\ pc' = [pc EXCEPT ![c] = "release"]
       ELSE /\ txn' = [txn EXCEPT ![c] = "active"]
            /\ result' = result
            /\ pc' = [pc EXCEPT ![c] = "create"]
    /\ UNCHANGED <<appts, locks, now, tz, data, lockAcquired, overlap, message,
                   doc, fault, cancelVars, ov, q>>

\* Steps 4-5: startSession, startTransaction (snapshot reads) and the
\* findOne of checkOverlap, the transaction's first read.  On a match the
\* code aborts the transaction and throws AppointmentBookingError inside
\* the try block whose catch aborts the transaction again.
CheckOverlap(c) ==
    /\ pc[c] = "check"
    /\ LET m == OverlapMatches(data[c].doctorId, data[c].start, data[c].end)
       IN IF m # {}
          THEN \E i \in m :
                 /\ overlap' = [overlap EXCEPT ![c] =
                                   [id |-> i, doc |-> appts[i]]]
                 /\ txn' = [txn EXCEPT ![c] = "aborted"]
                 /\ result' = [result EXCEPT ![c] =
                                 catchRethrow("aborted",
                                              "AppointmentBookingError")]
                 /\ pc' = [pc EXCEPT ![c] = "release"]
          ELSE /\ overlap' = [overlap EXCEPT ![c] = NULL]
               /\ txn' = [txn EXCEPT ![c] = "active"]
               /\ result' = result
               /\ pc' = [pc EXCEPT ![c] = "create"]
    /\ UNCHANGED <<appts, locks, now, tz, data, lockAcquired, message, doc, fault,
                   cancelVars, ov, q>>

\* Step 6: Appointment.create([...], {session}); the document is validated
\* against the schema and written inside the transaction, invisible to
\* others until the commit.
CreateAppointment(c) ==
    /\ pc[c] = "create"
    /\ IF SchemaValidate(data[c].start, data[c].end)
       THEN /\ doc' = [doc EXCEPT ![c] =
                          [doctorId |-> data[c].doctorId,
                           patientId |-> data[c].patientId,
                           start |-> data[c].start,
                           end |-> data[c].end,
                           status |-> "BOOKED",
                           createdAt |-> now, updatedAt |-> now]]
            /\ pc' = [pc EXCEPT ![c] = "commit"]
            /\ UNCHANGED <<txn, result>>
       ELSE /\ result' = [result EXCEPT ![c] =
                             catchRethrow(txn[c], "MongooseValidationError")]
            /\ txn' = [txn EXCEPT ![c] = "aborted"]
            /\ pc' = [pc EXCEPT ![c] = "release"]
            /\ doc' = doc
    /\ UNCHANGED <<appts, locks, now, tz, data, lockAcquired, overlap, message,
                   fault, cancelVars, ov, q>>

\* bookAppointment returning the document without committing.
CommitTransactionSkipped(c) ==
    /\ pc[c] = "commit"
    /\ result' = [result EXCEPT ![c] = "Booked"]
    /\ pc' = [pc EXCEPT ![c] = "release"]
    /\ UNCHANGED <<appts, locks, now, tz, data, lockAcquired, overlap, txn,
                   message, doc, fault, cancelVars, ov, q>>

\* Step 7: commitTransaction makes the document visible.  The transaction
\* wrote one new document, so no write conflict with another transaction is
\* possible.
CommitTransaction(c) ==
    /\ pc[c] = "commit"
    /\ appts' = Append(appts, doc[c])
    /\ txn' = [txn EXCEPT ![c] = "committed"]
    /\ result' = [result EXCEPT ![c] = "Booked"]
    /\ pc' = [pc EXCEPT ![c] = "release"]
    /\ UNCHANGED <<locks, now, tz, data, lockAcquired, overlap, message, doc, fault,
                   cancelVars, ov, q>>

\* The lock released only after a successful booking.
ReleaseLockOnSuccess(c) ==
    /\ pc[c] = "release"
    /\ locks' = IF lockAcquired[c] /\ result[c] = "Booked"
                THEN {l \in locks : l.lockKey # LockKeyOf(c)}
                ELSE locks
    /\ pc' = [pc EXCEPT ![c] = "done"]
    /\ UNCHANGED <<appts, now, tz, data, lockAcquired, overlap, txn, result,
                   message, doc, fault, cancelVars, ov, q>>

\* Step 8 (outer finally): BookingLock.deleteOne({lockKey}), then the call
\* returns or rethrows.
ReleaseLock(c) ==
    /\ pc[c] = "release"
    /\ locks' = IF lockAcquired[c]
                THEN {l \in locks : l.lockKey # LockKeyOf(c)}
                ELSE locks
    /\ pc' = [pc EXCEPT ![c] = "done"]
    /\ UNCHANGED <<appts, now, tz, data, lockAcquired, overlap, txn, result,
                   message, doc, fault, cancelVars, ov, q>>

\* The TTL index of BookingLockSchema.createdAt removes a lock document.
ExpireLock(l) ==
    /\ l \in locks
    /\ locks' = locks \ {l}
    /\ UNCHANGED <<appts, now, tz, bookVars, cancelVars, ov, q>>

----------------------------------------------------------------------------
(* cancelAppointment                                                       *)

\* cancelAppointment without the check of the loaded status.
CancelFindNoStatusCheck(k, id) ==
    /\ cpc[k] = "idle"
    /\ Started < MaxCalls
    /\ \A j \in Cancels : j < k => cpc[j] # "idle"
    /\ cid' = [cid EXCEPT ![k] = id]
    /\ IF id > Len(appts)
       THEN /\ cpc' = [cpc EXCEPT ![k] = "done"]
            /\ cresult' = [cresult EXCEPT ![k] = "Appointment not found"]
       ELSE /\ cpc' = [cpc EXCEPT ![k] = "save"]
            /\ cresult' = cresult
    /\ UNCHANGED <<appts, locks, now, tz, bookVars, ov, q>>

\* cancelAppointment returning quietly when findById finds nothing.
CancelFindIgnoreMissing(k, id) ==
    /\ cpc[k] = "idle"
    /\ Started < MaxCalls
    /\ \A j \in Cancels : j < k => cpc[j] # "idle"
    /\ cid' = [cid EXCEPT ![k] = id]
    /\ IF id > Len(appts)
       THEN /\ cpc' = [cpc EXCEPT ![k] = "done"]
            /\ cresult' = [cresult EXCEPT ![k] = "Cancelled"]
       ELSE IF appts[id].status = "CANCELLED"
            THEN /\ cpc' = [cpc EXCEPT ![k] = "done"]
                 /\ cresult' = [cresult EXCEPT ![k] =
                                   "Appointment is already cancelled"]
            ELSE /\ cpc' = [cpc EXCEPT ![k] = "save"]
                 /\ cresult' = cresult
    /\ UNCHANGED <<appts, locks, now, tz, bookVars, ov, q>>

\* Appointment.findById and the two checks on the loaded document.
CancelFind(k, id) ==
    /\ cpc[k] = "idle"
    /\ Started < MaxCalls
    /\ \A j \in Cancels : j < k => cpc[j] # "idle"
    /\ cid' = [cid EXCEPT ![k] = id]
    /\ IF id > Len(appts)
       THEN /\ cpc' = [cpc EXCEPT ![k] = "done"]
            /\ cresult' = [cresult EXCEPT ![k] = "Appointment not found"]
       ELSE IF appts[id].status = "CANCELLED"
            THEN /\ cpc' = [cpc EXCEPT ![k] = "done"]
                 /\ cresult' = [cresult EXCEPT ![k] =
                                   "Appointment is already cancelled"]
            ELSE /\ cpc' = [cpc EXCEPT ![k] = "save"]
                 /\ cresult' = cresult
    /\ UNCHANGED <<appts, locks, now, tz, bookVars, ov, q>>

\* appointment.status = "CANCELLED"; appointment.save()
CancelSave(k) ==
    /\ cpc[k] = "save"
    /\ appts' = [appts EXCEPT ![cid[k]].status = "CANCELLED",
                              ![cid[k]].updatedAt = now]
    /\ cpc' = [cpc EXCEPT ![k] = "done"]
    /\ cresult' = [cresult EXCEPT ![k] = "Cancelled"]
    /\ UNCHANGED <<locks, now, tz, bookVars, cid, ov, q>>

----------------------------------------------------------------------------
(* Specification of the service                                            *)

Next ==
    \/ \E c \in Calls, d \in Doctors, r \in Ranges : StartBooking(c, d, r)
    \/ \E c \in Calls : AcquireLock(c)
    \/ \E c \in Calls : CheckOverlap(c)
    \/ \E c \in Calls : CreateAppointment(c)
    \/ \E c \in Calls : CommitTransaction(c)
    \/ \E c \in Calls : ReleaseLock(c)
    \/ \E l \in locks : ExpireLock(l)
    \/ \E k \in Cancels, id \in 1..(Len(appts) + 1) : CancelFind(k, id)
    \/ \E k \in Cancels : CancelSave(k)

Spec == Init /\ [][Next]_vars

----------------------------------------------------------------------------
(* Specification of the service with a running clock: the calls of Spec,   *)
(* and the wall clock advancing between their steps.                       *)

MaxTicks == 2      \* clock advances of one run

\* Time passes: new Date() returns a later instant.
Tick ==
    /\ now < NowInit + MaxTicks
    /\ now' = now + 1
    /\ UNCHANGED <<appts, locks, tz, bookVars, cancelVars, ov, q>>

\* A request that starts one clock unit after the initial instant.
SoonRange == <<NowInit + 1, NowInit + 31>>

NextClock ==
    \/ Next
    \/ Tick
    \/ \E c \in Calls, d \in Doctors : StartBooking(c, d, SoonRange)

SpecClock == Init /\ [][NextClock]_vars

----------------------------------------------------------------------------
(* Specification of bookAppointment over a store that can fail: the calls  *)
(* of Spec for one doctor, without cancelAppointment, and every awaited     *)
(* storage operation of bookAppointment either succeeding or throwing a    *)
(* driver error ("StorageError": network, server or write conflict).  A    *)
(* failed operation has no effect on the store, except commitTransaction:  *)
(* under writeConcern majority a commit that throws may or may not have    *)
(* been applied (error label UnknownTransactionCommitResult).              *)
(* session.abortTransaction swallows command errors, so it fails only by   *)
(* the state errors of abortThrows.                                        *)

RangesFail ==
    { <<Day1 + 540, Day1 + 600>>,      \* 09:00-10:00
      <<Day1 + 560, Day1 + 630>>,      \* 09:20-10:30
      <<Day1 + 570, Day1 + 540>> }     \* start after end

\* BookingLock.create throws an error whose code is not 11000: rethrown
\* before the outer try block.
LockCreateFails(c) ==
    /\ pc[c] = "lock"
    /\ pc' = [pc EXCEPT ![c] = "done"]
    /\ result' = [result EXCEPT ![c] = "StorageError"]
    /\ fault' = [fault EXCEPT ![c] = @ \cup {"lock"}]
    /\ UNCHANGED <<appts, locks, now, tz, data, lockAcquired, overlap, txn,
                   message, doc, cancelVars, ov, q>>

\* mongoose.startSession throws: outside the inner try, so only the outer
\* finally runs.
StartSessionFails(c) ==
    /\ pc[c] = "check"
    /\ pc' = [pc EXCEPT ![c] = "release"]
    /\ result' = [result EXCEPT ![c] = "StorageError"]
    /\ fault' = [fault EXCEPT ![c] = @ \cup {"session"}]
    /\ UNCHANGED <<appts, locks, now, tz, data, lockAcquired, overlap, txn,
                   message, doc, cancelVars, ov, q>>

\* The findOne of checkOverlap throws inside the transaction.
OverlapReadFails(c) ==
    /\ pc[c] = "check"
    /\ pc' = [pc EXCEPT ![c] = "release"]
    /\ txn' = [txn EXCEPT ![c] = "aborted"]
    /\ result' = [result EXCEPT ![c] = catchRethrow("active", "StorageError")]
    /\ fault' = [fault EXCEPT ![c] = @ \cup {"find"}]
    /\ UNCHANGED <<appts, locks, now, tz, data, lockAcquired, overlap,
                   message, doc, cancelVars, ov, q>>

\* Appointment.create throws a storage error or a write conflict.
InsertFails(c) ==
    /\ pc[c] = "create"
    /\ pc' = [pc EXCEPT ![c] = "release"]
    /\ result' = [result EXCEPT ![c] = catchRethrow(txn[c], "StorageError")]
    /\ txn' = [txn EXCEPT ![c] = "aborted"]
    /\ fault' = [fault EXCEPT ![c] = @ \cup {"create"}]
    /\ UNCHANGED <<appts, locks, now, tz, data, lockAcquired, overlap,
                   message, doc, cancelVars, ov, q>>

\* session.commitTransaction throws.  The session is in its committed
\* state, so the abortTransaction of the catch block throws as well; the
\* commit itself was applied or not.
CommitFails(c) ==
    /\ pc[c] = "commit"
    /\ pc' = [pc EXCEPT ![c] = "release"]
    /\ result' = [result EXCEPT ![c] =
                     catchRethrow("committed", "StorageError")]
    /\ \/ appts' = appts /\ txn' = [txn EXCEPT ![c] = "aborted"]
       \/ appts' = Append(appts, doc[c])
            /\ txn' = [txn EXCEPT ![c] = "committed"]
    /\ fault' = [fault EXCEPT ![c] = @ \cup {"commit"}]
    /\ UNCHANGED <<locks, now, tz, data, lockAcquired, overlap, message, doc,
                   cancelVars, ov, q>>

\* BookingLock.deleteOne throws in the outer finally: caught and logged.
ReleaseFails(c) ==
    /\ pc[c] = "release"
    /\ lockAcquired[c]
    /\ pc' = [pc EXCEPT ![c] = "done"]
    /\ fault' = [fault EXCEPT ![c] = @ \cup {"release"}]
    /\ UNCHANGED <<appts, locks, now, tz, data, lockAcquired, overlap, txn,
                   result, message, doc, cancelVars, ov, q>>

\* The steps of call c after its start.
BookStep(c) ==
    \/ AcquireLock(c)
    \/ CheckOverlap(c)
    \/ CreateAppointment(c)
    \/ CommitTransaction(c)
    \/ ReleaseLock(c)

FailStep(c) ==
    \/ LockCreateFails(c)
    \/ StartSessionFails(c)
    \/ OverlapReadFails(c)
    \/ InsertFails(c)
    \/ CommitFails(c)
    \/ ReleaseFails(c)

NextFail ==
    \/ \E c \in Calls, r \in RangesFail : StartBooking(c, 1, r)
    \/ \E c \in Calls : BookStep(c)
    \/ \E c \in Calls : FailStep(c)
    \/ \E l \in locks : ExpireLock(l)

SpecFail == Init /\ [][NextFail]_vars

\* Every started call keeps taking steps: each await settles.
SpecFailLive ==
    SpecFail /\ \A c \in Calls : WF_vars(BookStep(c) \/ FailStep(c))

----------------------------------------------------------------------------
(* Specification of the overlap predicate alone: every pair of intervals   *)
(* over 0..MaxT, and one evaluation of slotsOverlap.                       *)

Instants == 0..MaxT

InitOverlap ==
    /\ appts = << >>
    /\ locks = {}
    /\ now = NowInit
    /\ tz = 0
    /\ InitCalls
    /\ q = NoQuery
    /\ ov \in { o \in [start1 : Instants, end1 : Instants,
                       start2 : Instants, end2 : Instants,
                       res : {FALSE}, done : {FALSE}] :
                  o.start1 < o.end1 /\ o.start2 < o.end2 }

ApplyOverlap ==
    /\ ~ov.done
    /\ ov' = [ov EXCEPT !.res = slotsOverlap(ov.start1, ov.end1,
                                             ov.start2, ov.end2),
                        !.done = TRUE]
    /\ UNCHANGED <<appts, locks, now, tz, bookVars, cancelVars, q>>

NextOverlap == ApplyOverlap

SpecOverlap == InitOverlap /\ [][NextOverlap]_vars

----------------------------------------------------------------------------
(* Specification of the validators: one bookAppointment call on an empty   *)
(* store, for every request over TimesV and every server time zone of Tzs. *)

Day2 == 2 * MinutesPerDay

\* Offsets of the server's local time from UTC: UTC, UTC+2, UTC-5.
Tzs == {0, 120, -300}

TimesV ==
    { 540,                \* day 0 09:00 UTC, before NowInit
      NowInit,
      Day1 + 480,         \* 08:00
      Day1 + 540,         \* 09:00
      Day1 + 600,         \* 10:00
      Day1 + 1005,        \* 16:45
      Day1 + 1020,        \* 17:00
      Day1 + 1035,        \* 17:15
      Day1 + 1380,        \* 23:00
      Day2 + 30,          \* 00:30
      Day2 + 540,         \* 09:00
      Day2 + 600 }        \* 10:00

RangesV == TimesV \X TimesV

InitValidate ==
    /\ appts = << >>
    /\ locks = {}
    /\ now = NowInit
    /\ tz \in Tzs
    /\ InitCalls
    /\ ov = NoOv
    /\ q = NoQuery

NextValidate ==
    \/ \E d \in Doctors, r \in RangesV : StartBooking(1, d, r)
    \/ AcquireLock(1)
    \/ CheckOverlap(1)
    \/ CreateAppointment(1)
    \/ CommitTransaction(1)
    \/ ReleaseLock(1)

SpecValidate == InitValidate /\ [][NextValidate]_vars

----------------------------------------------------------------------------
(* Specification of getAvailableSlots: one call, for every doctor, date    *)
(* and slot duration of the sets below, on every store of at most MaxRows  *)
(* appointments that bookAppointment and cancelAppointment can have        *)
(* written, under every server time zone of Tzs.                           *)

MaxRows == 2       \* appointments in the store of a getAvailableSlots call

\* <<start, end>> of stored appointments.
RowRanges ==
    { <<Day1 + 540, Day1 + 600>>,      \* 09:00-10:00 UTC
      <<Day1 + 560, Day1 + 630>>,      \* 09:20-10:30
      <<Day1 + 540, Day1 + 1020>>,     \* 09:00-17:00
      <<Day1 + 840, Day1 + 900>>,      \* 14:00-15:00
      <<Day2 + 540, Day2 + 600>> }     \* 09:00-10:00 of the next day

\* Documents that passed the validators of bookAppointment and the schema
\* checks of Appointment.create, booked or cancelled since.
StoredRows ==
    { [doctorId |-> d, patientId |-> 0, start |-> r[1], end |-> r[2],
       status |-> st, createdAt |-> NowInit, updatedAt |-> NowInit] :
        d \in Doctors,
        r \in { x \in RowRanges : /\ Validate(x[1], x[2]) = "ok"
                                  /\ SchemaValidate(x[1], x[2]) },
        st \in {"BOOKED", "CANCELLED"} }

Stores == UNION { [1..n -> StoredRows] : n \in 0..MaxRows }

\* The `date` argument: new Date("YYYY-MM-DD"), a UTC midnight.
Dates == {Day1, Day2}

\* The slotMinutes argument.
SlotDurations == {7, 30, 45, 60, 500}

InitAvail ==
    /\ tz \in Tzs
    /\ now = NowInit
    /\ appts \in Stores
    /\ locks = {}
    /\ InitCalls
    /\ ov = NoOv
    /\ q \in [op : {"getAvailableSlots"}, doctorId : Doctors, date : Dates,
              slotMinutes : SlotDurations, done : {FALSE},
              result : {<< >>}]

\* One getAvailableSlots call.
GetAvailableSlots ==
    /\ q.op = "getAvailableSlots"
    /\ ~q.done
    /\ q' = [q EXCEPT
               !.result = getAvailableSlots(q.doctorId, q.date, q.slotMinutes),
               !.done = TRUE]
    /\ UNCHANGED <<appts, locks, now, tz, bookVars, cancelVars, ov>>

NextAvail == GetAvailableSlots

SpecAvail == InitAvail /\ [][NextAvail]_vars

----------------------------------------------------------------------------
(* Specification of getAppointmentsByDoctorAndDate: one call, on the       *)
(* stores, dates and time zones of SpecAvail.                              *)

InitList ==
    /\ tz \in Tzs
    /\ now = NowInit
    /\ appts \in Stores
    /\ locks = {}
    /\ InitCalls
    /\ ov = NoOv
    /\ q \in [op : {"getAppointmentsByDoctorAndDate"}, doctorId : Doctors,
              date : Dates, done : {FALSE}, result : {<< >>}]

ListAppointments ==
    /\ q.op = "getAppointmentsByDoctorAndDate"
    /\ ~q.done
    /\ \E r \in getAppointmentsByDoctorAndDate(q.doctorId, q.date) :
          q' = [q EXCEPT !.result = r, !.done = TRUE]
    /\ UNCHANGED <<appts, locks, now, tz, bookVars, cancelVars, ov>>

NextList == ListAppointments

SpecList == InitList /\ [][NextList]_vars

----------------------------------------------------------------------------
(* Specification of availability around a booking: getAvailableSlots, one  *)
(* bookAppointment call for the same doctor (for a slot the query returned *)
(* or for a range of RowRanges), one cancelAppointment call after it, and  *)
(* getAvailableSlots again with the same arguments.                        *)

\* Stores of at most one appointment.
SmallStores == { << >> } \cup { << r >> : r \in StoredRows }

InitRoundTrip ==
    /\ tz \in Tzs
    /\ now = NowInit
    /\ appts \in SmallStores
    /\ locks = {}
    /\ InitCalls
    /\ ov = NoOv
    /\ q \in [op : {"getAvailableSlots"}, doctorId : Doctors, date : {Day1},
              slotMinutes : {30, 60}, done : {FALSE}, result : {<< >>},
              again : {FALSE}, after : {<< >>}]

\* <<start, end>> of the slots of the list `slots` that start in the future.
FutureSlots(slots) ==
    { <<slots[k].start, slots[k].end>> :
        k \in { j \in DOMAIN slots : slots[j].start > now } }

\* The second getAvailableSlots call, with the arguments of the first.
GetAvailableSlotsAgain ==
    /\ q.op = "getAvailableSlots"
    /\ q.done /\ ~q.again
    /\ q' = [q EXCEPT
               !.after = getAvailableSlots(q.doctorId, q.date, q.slotMinutes),
               !.again = TRUE]
    /\ UNCHANGED <<appts, locks, now, tz, bookVars, cancelVars, ov>>

\* The steps of the two calls, between the two queries.
RoundTripStep ==
    /\ q.done /\ ~q.again
    /\ \/ \E r \in FutureSlots(q.result) \cup RowRanges :
             StartBooking(1, q.doctorId, r)
       \/ AcquireLock(1)
       \/ CheckOverlap(1)
       \/ CreateAppointment(1)
       \/ CommitTransaction(1)
       \/ ReleaseLock(1)
       \/ pc[1] = "done" /\ \E id \in 1..(Len(appts) + 1) : CancelFind(1, id)
       \/ CancelSave(1)

NextRoundTrip == GetAvailableSlots \/ RoundTripStep \/ GetAvailableSlotsAgain

SpecRoundTrip == InitRoundTrip /\ [][NextRoundTrip]_vars

----------------------------------------------------------------------------
(* Specification of generateTimeSlots alone: one evaluation, for every     *)
(* range start < end over 0..MaxGrid and every slot duration 1..MaxSlot.   *)

MaxGrid == 12      \* instants 0..MaxGrid of the generateTimeSlots ranges
MaxSlot == 5       \* slot durations 1..MaxSlot

InitGrid ==
    /\ appts = << >>
    /\ locks = {}
    /\ now = NowInit
    /\ tz = 0
    /\ InitCalls
    /\ ov = NoOv
    /\ q \in { x \in [op : {"generateTimeSlots"}, start : 0..MaxGrid,
                       end : 0..MaxGrid, slotMinutes : 1..MaxSlot,
                       done : {FALSE}, result : {<< >>}] :
                 x.start < x.end }

ApplyGenerateTimeSlots ==
    /\ q.op = "generateTimeSlots"
    /\ ~q.done
    /\ q' = [q EXCEPT
               !.result = generateTimeSlots(q.start, q.end, q.slotMinutes),
               !.done = TRUE]
    /\ UNCHANGED <<appts, locks, now, tz, bookVars, cancelVars, ov>>

NextGrid == ApplyGenerateTimeSlots

SpecGrid == InitGrid /\ [][NextGrid]_vars

----------------------------------------------------------------------------
(* Specification of the while loop of generateTimeSlots, one iteration per *)
(* step, for every range start < end over 0..MaxGrid and every slot        *)
(* duration -MaxSlot..MaxSlot (parseInt of the query parameter gives any   *)
(* integer).  The process holds HeapSlots TimeSlot objects at most: a push *)
(* beyond that ends it with an out-of-memory error.                        *)

HeapSlots == MaxGrid + 2

InitLoop ==
    /\ appts = << >>
    /\ locks = {}
    /\ now = NowInit
    /\ tz = 0
    /\ InitCalls
    /\ ov = NoOv
    /\ q \in { [op |-> "generateTimeSlotsLoop", start |-> s, end |-> e,
                slotMinutes |-> d, current |-> s, slots |-> << >>,
                pc |-> "while"] :
                 s \in 0..MaxGrid, e \in 0..MaxGrid,
                 d \in (0 - MaxSlot)..MaxSlot }
    /\ q.start < q.end

\* One iteration of the loop body: current < end.
LoopIteration ==
    /\ q.op = "generateTimeSlotsLoop"
    /\ q.pc = "while"
    /\ q.current < q.end
    /\ LET slotEnd == q.current + q.slotMinutes
       IN IF slotEnd <= q.end
          THEN IF Len(q.slots) < HeapSlots
               THEN q' = [q EXCEPT
                            !.slots = Append(@, [start |-> q.current,
                                                 end |-> slotEnd]),
                            !.current = @ + q.slotMinutes]
               ELSE q' = [q EXCEPT !.pc = "out of memory"]
          ELSE q' = [q EXCEPT !.current = @ + q.slotMinutes]
    /\ UNCHANGED <<appts, locks, now, tz, bookVars, cancelVars, ov>>

\* The loop condition fails and generateTimeSlots returns `slots`.
LoopReturn ==
    /\ q.op = "generateTimeSlotsLoop"
    /\ q.pc = "while"
    /\ ~(q.current < q.end)
    /\ q' = [q EXCEPT !.pc = "returned"]
    /\ UNCHANGED <<appts, locks, now, tz, bookVars, cancelVars, ov>>

NextLoop == LoopIteration \/ LoopReturn

SpecLoop == InitLoop /\ [][NextLoop]_vars

\* The loop is straight-line code: it keeps running.
SpecLoopLive == SpecLoop /\ WF_vars(NextLoop)

----------------------------------------------------------------------------
(* Vocabulary of the properties                                            *)

Ids       == 1..Len(appts)
BookedIds == {i \in Ids : appts[i].status = "BOOKED"}

\* Two stored rows of one doctor whose half-open intervals intersect.
RowsOverlap(i, j) ==
    /\ appts[i].doctorId = appts[j].doctorId
    /\ appts[i].start < appts[j].end
    /\ appts[j].start < appts[i].end

NoDoubleBooking ==
    \A i \in BookedIds, j \in BookedIds : i # j => ~RowsOverlap(i, j)

\* The request of call c passes the validators and the schema checks.
ValidRequest(c) ==
    /\ Validate(data[c].start, data[c].end) = "ok"
    /\ SchemaValidate(data[c].start, data[c].end)

Finished(c)  == pc[c] = "done"
NoCancels    == \A k \in Cancels : cpc[k] = "idle"
SameDoctor(c1, c2) == data[c1].doctorId = data[c2].doctorId
RequestsOverlap(c1, c2) ==
    /\ SameDoctor(c1, c2)
    /\ data[c1].start < data[c2].end
    /\ data[c2].start < data[c1].end

\* Rows that no call of this run created (they were there at the start).
EarlierIds == {i \in Ids : appts[i].patientId = 0}

\* The range requested by c was free at the start of the run.
FreeAtStart(c) ==
    \A i \in EarlierIds :
        ~ ( appts[i].doctorId = data[c].doctorId
            /\ appts[i].start < data[c].end
            /\ data[c].start < appts[i].end )

----------------------------------------------------------------------------
(* C1 .. C10                                                               *)

\* C1: at every point in time and for every doctor, no two rows with status
\* BOOKED have overlapping half-open intervals [start, end).
C1_NoDoubleBooking == NoDoubleBooking

\* C2: of the bookAppointment calls of one doctor whose ranges overlap
\* pairwise, at most one commits and every other one fails with
\* ConflictError (AppointmentBookingError), whatever the interleaving.
C2_AtMostOneCommits ==
    \A c1 \in Calls, c2 \in Calls :
        ( /\ c1 # c2
          /\ Finished(c1) /\ Finished(c2)
          /\ ValidRequest(c1) /\ ValidRequest(c2)
          /\ RequestsOverlap(c1, c2)
          /\ NoCancels )
        => /\ ~(result[c1] = "Booked" /\ result[c2] = "Booked")
           /\ result[c1] \in {"Booked", "AppointmentBookingError"}
           /\ result[c2] \in {"Booked", "AppointmentBookingError"}

\* C3: when all the calls of a run ask for the same doctor, start and end on
\* a slot that was free, exactly one succeeds, every other one ends with
\* ConflictError, and no BOOKED rows overlap afterwards.
C3_ExactlyOneSuccess ==
    ( /\ \A c \in Calls : Finished(c) /\ ValidRequest(c) /\ FreeAtStart(c)
      /\ \A c1 \in Calls, c2 \in Calls :
            /\ SameDoctor(c1, c2)
            /\ data[c1].start = data[c2].start
            /\ data[c1].end = data[c2].end )
    => /\ Cardinality({c \in Calls : result[c] = "Booked"}) = 1
       /\ \A c \in Calls :
             result[c] \in {"Booked", "AppointmentBookingError"}
       /\ NoDoubleBooking

\* C4: a call, with no other call in flight, whose overlap check finds a
\* BOOKED appointment ends with ConflictError (AppointmentBookingError) and
\* no other error kind, its transaction aborted.
C4_OverlapGivesConflictError ==
    \A c \in Calls :
        ( /\ Finished(c)
          /\ overlap[c] # NULL
          /\ \A b \in Calls \ {c} : pc[b] \in {"idle", "done"} )
        => result[c] = "AppointmentBookingError" /\ txn[c] = "aborted"

\* C5: a call ends with ConflictError only if its overlap check found a
\* BOOKED appointment of the same doctor overlapping the requested range.
C5_ConflictOnlyOnOverlap ==
    \A c \in Calls :
        (Finished(c) /\ result[c] = "AppointmentBookingError")
        => overlap[c] # NULL

\* C6: two calls for the same doctor with valid ranges that do not overlap
\* each other (nor anything booked before) both commit, whatever the
\* interleaving.
C6_DisjointBothCommit ==
    \A c1 \in Calls, c2 \in Calls :
        ( /\ c1 # c2
          /\ Finished(c1) /\ Finished(c2)
          /\ ValidRequest(c1) /\ ValidRequest(c2)
          /\ FreeAtStart(c1) /\ FreeAtStart(c2)
          /\ SameDoctor(c1, c2)
          /\ ~RequestsOverlap(c1, c2)
          /\ \A b \in Calls \ {c1, c2} : pc[b] = "idle" )
        => result[c1] = "Booked" /\ result[c2] = "Booked"

\* C7: calls for different doctors never make one another fail: a valid call
\* whose doctor has no other call and no appointment of anyone else ends
\* Booked whatever the calls for other doctors do, and a conflicting
\* document reported by the overlap check is always one of the call's own
\* doctor.
C7_DoctorsIndependent ==
    \A c \in Calls :
        /\ ( /\ Finished(c)
             /\ ValidRequest(c)
             /\ \A b \in Calls \ {c} : pc[b] # "idle" => ~SameDoctor(b, c)
             /\ \A i \in Ids : appts[i].doctorId = data[c].doctorId
                                  => appts[i].patientId = c )
           => result[c] = "Booked"
        /\ overlap[c] # NULL => overlap[c].doc.doctorId = data[c].doctorId

\* Two calls for different doctors and the same range have both been booked.
C7_Witness ==
    \E c1 \in Calls, c2 \in Calls :
        /\ Finished(c1) /\ Finished(c2)
        /\ data[c1].doctorId # data[c2].doctorId
        /\ data[c1].start = data[c2].start /\ data[c1].end = data[c2].end
        /\ result[c1] = "Booked" /\ result[c2] = "Booked"

\* Every stored row of c's doctor that intersects c's range is CANCELLED.
OnlyCancelledInRange(c) ==
    \A i \in Ids :
        ( /\ appts[i].doctorId = data[c].doctorId
          /\ slotsOverlap(data[c].start, data[c].end,
                          appts[i].start, appts[i].end) )
        => appts[i].status = "CANCELLED"

\* C8: cancelled rows never block a slot: an overlap check that runs while
\* only CANCELLED rows of the doctor intersect the range finds nothing and
\* goes on to create the appointment, and a valid call that got that far
\* commits and ends Booked.
C8_CancelledNeverBlocks ==
    [][ \A c \in Calls :
          /\ (pc[c] = "check" /\ pc'[c] # "check" /\ OnlyCancelledInRange(c))
             => (pc'[c] = "create" /\ overlap'[c] = NULL)
          /\ (pc[c] = "create" /\ pc'[c] # "create" /\ ValidRequest(c))
             => pc'[c] = "commit"
          /\ (pc[c] = "commit" /\ pc'[c] # "commit")
             => (result'[c] = "Booked" /\ appts'[Len(appts')].status = "BOOKED")
      ]_vars

\* A call has been booked on exactly the doctor and range of a CANCELLED row.
C8_Witness ==
    \E c \in Calls, i \in Ids :
        /\ Finished(c) /\ result[c] = "Booked"
        /\ appts[i].status = "CANCELLED"
        /\ appts[i].doctorId = data[c].doctorId
        /\ appts[i].start = data[c].start /\ appts[i].end = data[c].end

\* C9: back-to-back appointments are allowed: the overlap check never
\* reports a row that merely touches the requested range (row.end = start
\* or row.start = end), and a valid call that holds the lock and found no
\* conflicting row ends Booked.
C9_BackToBackAllowed ==
    \A c \in Calls :
        /\ overlap[c] # NULL
           => /\ overlap[c].doc.end # data[c].start
              /\ overlap[c].doc.start # data[c].end
        /\ (Finished(c) /\ ValidRequest(c) /\ lockAcquired[c]
              /\ overlap[c] = NULL)
           => result[c] = "Booked"

\* A call has been booked right after a BOOKED row of its doctor, and both
\* rows are BOOKED.
C9_Witness ==
    \E c \in Calls, i \in BookedIds, j \in BookedIds :
        /\ Finished(c) /\ result[c] = "Booked"
        /\ appts[j].patientId = c
        /\ i < j
        /\ appts[i].doctorId = appts[j].doctorId
        /\ appts[i].end = appts[j].start

\* C10: for intervals with start1 < end1 and start2 < end2, slotsOverlap is
\* true iff start1 < end2 and start2 < end1: true for partial overlap from
\* either side, containment in either direction and exact coincidence;
\* false for adjacent and for disjoint intervals.
C10_OverlapPredicate ==
    ov.done =>
      LET a1 == ov.start1  a2 == ov.end1  b1 == ov.start2  b2 == ov.end2
      IN /\ ov.res <=> (a1 < b2 /\ b1 < a2)
         /\ (a1 < b1 /\ b1 < a2 /\ a2 < b2) => ov.res      \* partial, A first
         /\ (b1 < a1 /\ a1 < b2 /\ b2 < a2) => ov.res      \* partial, B first
         /\ (a1 <= b1 /\ b2 <= a2) => ov.res               \* A contains B
         /\ (b1 <= a1 /\ a2 <= b2) => ov.res               \* B contains A
         /\ (a1 = b1 /\ a2 = b2) => ov.res                 \* coincidence
         /\ (a2 = b1 \/ b2 = a1) => ~ov.res                \* adjacent
         /\ (a2 < b1 \/ b2 < a1) => ~ov.res                \* disjoint

\* The predicate has been evaluated on two adjacent intervals.
C10_Witness ==
    ov.done /\ ov.end1 = ov.start2 /\ ~ov.res

----------------------------------------------------------------------------
(* Validation precedes every storage access                                *)

\* Call c was rejected by the validators of step 1.
Rejected(c) == pc[c] = "done" /\ result[c] = "ValidationError"

\* C11: a bookAppointment call that fails a validator ends with
\* ValidationError in the step that starts it, and that step creates no lock
\* document, starts no transaction, reads and writes no appointment and
\* leaves appts and locks as they were; the call never holds a lock, a
\* transaction or a document afterwards.
C11_ValidationBeforeStorage ==
    /\ [][ \A c \in Calls :
             ( /\ pc[c] = "idle"
               /\ pc'[c] # "idle"
               /\ Validate(data'[c].start, data'[c].end) # "ok" )
             => /\ pc'[c] = "done"
                /\ result'[c] = "ValidationError"
                /\ appts' = appts
                /\ locks' = locks ]_vars
    /\ [] ( \A c \in Calls :
              Rejected(c)
              => /\ ~lockAcquired[c]
                 /\ txn[c] = "none"
                 /\ overlap[c] = NULL
                 /\ doc[c] = NULL
                 /\ \A l \in locks : l.owner # c )

\* A call was rejected while the store held an appointment.
C11_Witness ==
    \E c \in Calls : Rejected(c) /\ message[c] # "" /\ appts # << >>

----------------------------------------------------------------------------
(* The validators                                                          *)

Requested(c) == pc[c] # "idle"

\* C12: a bookAppointment call with start >= end, start == end included,
\* ends with the ValidationError "Start time must be before end time" and
\* neither an appointment nor a lock is stored.
C12_InvalidRangeRejected ==
    \A c \in Calls :
        (Requested(c) /\ data[c].start >= data[c].end)
        => /\ Rejected(c)
           /\ message[c] = "Start time must be before end time"
           /\ appts = << >>
           /\ locks = {}

\* A zero-duration request was rejected.
C12_Witness ==
    \E c \in Calls :
        Rejected(c) /\ data[c].start = data[c].end
          /\ message[c] = "Start time must be before end time"

\* C13: a bookAppointment call with start < end whose start and end lie on
\* different calendar days (of the server's calendar, the one toDateString
\* reads) ends with the ValidationError "Appointments must be within the
\* same day", whatever the two times of day are.
C13_CrossesMidnightRejected ==
    \A c \in Calls :
        ( /\ Requested(c)
          /\ data[c].start < data[c].end
          /\ DateString(data[c].start) # DateString(data[c].end) )
        => /\ Rejected(c)
           /\ message[c] = "Appointments must be within the same day"

\* 09:00 on one day to 10:00 on the next was rejected: both times of day are
\* inside the working hours.
C13_Witness ==
    \E c \in Calls :
        /\ Rejected(c)
        /\ message[c] = "Appointments must be within the same day"
        /\ data[c].start = Day1 + 540
        /\ data[c].end = Day2 + 600
        /\ tz = 0

\* Times of day, in minutes after midnight, on the UTC and on the server's
\* calendar.
UTCTimeOfDay(t)   == t % MinutesPerDay
LocalTimeOfDay(t) == (t + tz) % MinutesPerDay

\* clinicOpen <= time of day of start < clinicClose, and time of day of
\* end <= clinicClose.
InWindow(s, e) ==
    /\ ClinicStart * 60 <= s
    /\ s < ClinicEnd * 60
    /\ e <= ClinicEnd * 60

\* Call c reached the working-hours check.
HoursChecked(c) ==
    Requested(c) /\ validateAppointmentTimes(data[c].start, data[c].end) = "ok"

\* Call c was rejected by the working-hours check.
OutsideWorkingHours(c) ==
    /\ Rejected(c)
    /\ message[c] \in {"Appointments cannot start before",
                       "Appointments cannot end after"}

\* C14: a call passes the working-hours check iff clinicOpen <= time of
\* day of start < clinicClose and time of day of end <= clinicClose, and is
\* rejected with the working-hours ValidationError otherwise; the time of
\* day is read on one calendar, the UTC one or the server's.
C14_WorkingHoursWindow ==
    \A c \in Calls :
        HoursChecked(c)
        => \/ ~OutsideWorkingHours(c)
                <=> InWindow(UTCTimeOfDay(data[c].start),
                             UTCTimeOfDay(data[c].end))
           \/ ~OutsideWorkingHours(c)
                <=> InWindow(LocalTimeOfDay(data[c].start),
                             LocalTimeOfDay(data[c].end))

\* Call c reached validateNotInPast.
PastChecked(c) ==
    /\ HoursChecked(c)
    /\ validateWorkingHours(data[c].start, data[c].end) = "ok"

\* C15: a call whose start is not strictly later than the clock, start = now
\* included, ends with the ValidationError "Cannot book appointments in the
\* past" without a lock, a transaction or a document.
C15_PastStartRejected ==
    \A c \in Calls :
        (PastChecked(c) /\ data[c].start <= now)
        => /\ Rejected(c)
           /\ message[c] = "Cannot book appointments in the past"
           /\ ~lockAcquired[c]
           /\ txn[c] = "none"
           /\ doc[c] = NULL

----------------------------------------------------------------------------
(* cancelAppointment                                                       *)

\* Cancel call k starts in this step, for appointment id.
CancelStarts(k) == cpc[k] = "idle" /\ cpc'[k] # "idle"

\* C16: cancelAppointment(id) on a row whose status is CANCELLED ends with
\* the error "Appointment is already cancelled", never with success, and
\* changes no row.
C16_AlreadyCancelledRejected ==
    [][ \A k \in Cancels :
          ( /\ CancelStarts(k)
            /\ cid'[k] \in Ids
            /\ appts[cid'[k]].status = "CANCELLED" )
          => /\ cpc'[k] = "done"
             /\ cresult'[k] = "Appointment is already cancelled"
             /\ appts' = appts ]_vars

\* A cancel call was refused because its row was cancelled before.
C16_Witness ==
    \E k \in Cancels :
        /\ cpc[k] = "done"
        /\ cresult[k] = "Appointment is already cancelled"
        /\ appts[cid[k]].status = "CANCELLED"

\* C17: cancelAppointment(id) for an id that no stored appointment has ends
\* with the error "Appointment not found" and changes no row.
C17_MissingIdNotFound ==
    [][ \A k \in Cancels :
          (CancelStarts(k) /\ cid'[k] \notin Ids)
          => /\ cpc'[k] = "done"
             /\ cresult'[k] = "Appointment not found"
             /\ appts' = appts ]_vars

\* A cancel call for an unknown id ended with "Appointment not found" while
\* the store held an appointment.
C17_Witness ==
    \E k \in Cancels :
        /\ cpc[k] = "done"
        /\ cresult[k] = "Appointment not found"
        /\ cid[k] \notin Ids
        /\ appts # << >>

\* C18: CANCELLED is terminal.  A row whose status is CANCELLED is never
\* changed again, in its status or in any other field, and the only change
\* of status a row ever makes is from BOOKED to CANCELLED.
C18_CancelledIsTerminal ==
    [][ \A i \in Ids :
          /\ i \in 1..Len(appts')
          /\ appts[i].status = "CANCELLED" => appts'[i] = appts[i]
          /\ appts'[i].status # appts[i].status
               => appts[i].status = "BOOKED" /\ appts'[i].status = "CANCELLED"
      ]_vars

\* The status part of C18 alone: no row leaves CANCELLED.
StatusNeverReverts ==
    [][ \A i \in Ids :
          appts[i].status = "CANCELLED" => appts'[i].status = "CANCELLED"
      ]_vars

----------------------------------------------------------------------------
(* Availability                                                            *)

\* The grid of [dayOpen, dayClose): the slots [dayOpen + k*d, dayOpen +
\* (k+1)*d) for k = 0 .. floor((dayClose - dayOpen) / d) - 1, ascending.
FullGrid(dayOpen, dayClose, d) ==
    [k \in 1..((dayClose - dayOpen) \div d) |->
        [start |-> dayOpen + (k - 1) * d, end |-> dayOpen + k * d]]

\* Slot s shares an instant with a BOOKED appointment of doctor d.
SlotTaken(s, d) ==
    \E i \in BookedIds :
        /\ appts[i].doctorId = d
        /\ s.start < appts[i].end
        /\ appts[i].start < s.end

\* C19: getAvailableSlots returns exactly the slots of the full grid that
\* overlap no BOOKED appointment of the doctor, in grid order, so that the
\* returned slots and the grid slots overlapping some BOOKED appointment
\* add up to the full grid; a day with no free slot gives the empty list.
C19_AvailabilityComplement ==
    (q.op = "getAvailableSlots" /\ q.done)
    => LET grid  == FullGrid(SetHours(q.date, ClinicStart),
                             SetHours(q.date, ClinicEnd), q.slotMinutes)
           free(s) == ~SlotTaken(s, q.doctorId)
           taken == {k \in 1..Len(grid) : SlotTaken(grid[k], q.doctorId)}
       IN /\ q.result = SelectSeq(grid, free)
          /\ Len(q.result) + Cardinality(taken) = Len(grid)

\* A call on a fully booked day, with a cancelled appointment in the store
\* as well, returned the empty list.
C19_Witness ==
    /\ q.op = "getAvailableSlots" /\ q.done
    /\ q.slotMinutes = 30
    /\ q.result = << >>
    /\ \E i \in Ids : appts[i].status = "CANCELLED"

\* C20: for a slot duration d >= 1 the generated grid is the list of slots
\* [dayOpen + k*d, dayOpen + (k+1)*d), k = 0 .. floor((dayClose-dayOpen)/d)-1:
\* ascending, contiguous, pairwise disjoint, each of length d, the first
\* starting at dayOpen, none ending after dayClose, a trailing partial slot
\* left out.
C20_GridShape ==
    (q.op = "generateTimeSlots" /\ q.done /\ q.slotMinutes >= 1)
    => LET g == q.result
           d == q.slotMinutes
       IN /\ g = FullGrid(q.start, q.end, d)
          /\ Len(g) = (q.end - q.start) \div d
          /\ Len(g) > 0 => g[1].start = q.start
          /\ \A k \in 1..Len(g) :
                /\ g[k].end - g[k].start = d
                /\ g[k].end <= q.end
                /\ k > 1 => g[k].start = g[k - 1].end
          /\ \A j, k \in 1..Len(g) :
                j # k => ~(g[j].start < g[k].end /\ g[k].start < g[j].end)

\* A grid of several slots was generated for a range that the duration
\* does not divide: its last slot ends before dayClose.
C20_Witness ==
    /\ q.op = "generateTimeSlots" /\ q.done
    /\ (q.end - q.start) % q.slotMinutes # 0
    /\ Len(q.result) >= 2
    /\ q.result[Len(q.result)].end < q.end

----------------------------------------------------------------------------
(* Atomicity and outcomes of bookAppointment                               *)

\* Rows written by call c (the patient of call c is patient c).
RowsOf(c) == {i \in Ids : appts[i].patientId = c}

\* C21: a bookAppointment call that ends with an error, be it a validation
\* error, a conflict or a storage failure, leaves no appointment row
\* behind: the store holds exactly the rows it would hold without the call.
C21_NoPartialPersistence ==
    \A c \in Calls :
        (Finished(c) /\ result[c] # "Booked") => RowsOf(c) = {}

\* C22: every stored appointment row has start < end, start and end on one
\* calendar day, and both inside the working hours of that day (calendar
\* and hours as the server reads them), in every reachable state.
C22_StoredRowInvariants ==
    \A i \in Ids :
        /\ appts[i].start < appts[i].end
        /\ DateString(appts[i].start) = DateString(appts[i].end)
        /\ InWindow(LocalTimeOfDay(appts[i].start),
                    LocalTimeOfDay(appts[i].end))
        /\ ClinicStart * 60 <= LocalTimeOfDay(appts[i].end)

\* A row was stored by a server whose clock is not on UTC.
C22_Witness ==
    /\ tz # 0
    /\ \E c \in Calls : result[c] = "Booked" /\ RowsOf(c) # {}

\* C23: the start of every stored row is strictly later than the instant at
\* which the row was committed, also when the clock advances between the
\* validators and the insert or the commit.
C23_StartAfterCreation ==
    [][ \A i \in 1..Len(appts') :
          i > Len(appts) => appts'[i].start > now' ]_vars

\* The start of every stored row is later than its createdAt, the instant
\* at which Appointment.create built and validated the document.
StartAfterCreatedAt ==
    \A i \in Ids : appts[i].start > appts[i].createdAt

\* The storage operations of the transaction of bookAppointment.
TxnOps == {"session", "find", "create", "commit"}

C25_SomeoneCommits ==
    ( /\ \A c \in Calls : Finished(c) /\ ValidRequest(c) /\ FreeAtStart(c)
      /\ \A c1 \in Calls, c2 \in Calls :
            SameDoctor(c1, c2) /\ RequestsOverlap(c1, c2) )
    => \E c \in Calls : result[c] = "Booked"

\* All calls asked for overlapping ranges of one doctor, and one of them was
\* rejected while another committed.
C25_Witness ==
    /\ \A c \in Calls : Finished(c) /\ ValidRequest(c) /\ FreeAtStart(c)
    /\ \A c1 \in Calls, c2 \in Calls :
          SameDoctor(c1, c2) /\ RequestsOverlap(c1, c2)
    /\ \E c \in Calls : result[c] = "Booked"
    /\ \E c \in Calls : result[c] # "Booked"

\* Every started call ends.
Terminates == \A c \in Calls : (pc[c] # "idle") ~> Finished(c)

\* Call c ended as Booked, its row committed, or as rejected, its
\* transaction (if any) aborted and no row of it in the store.
TerminalOutcome(c) ==
    \/ /\ result[c] = "Booked"
       /\ txn[c] = "committed"
       /\ RowsOf(c) # {}
    \/ /\ result[c] \notin {"Booked", "none"}
       /\ txn[c] \in {"none", "aborted"}
       /\ RowsOf(c) = {}

\* C26: every bookAppointment call terminates, after one transaction
\* attempt at most, in exactly one terminal outcome: Booked and committed,
\* or rejected and fully aborted; it never stays in between.
C26_TerminatesWithOutcome ==
    /\ Terminates
    /\ [] (\A c \in Calls : Finished(c) => TerminalOutcome(c))

----------------------------------------------------------------------------
(* Listing                                                                 *)

\* C27: getAppointmentsByDoctorAndDate returns its appointments sorted by
\* start ascending (r[i].start <= r[i+1].start), each of the requested
\* doctor and starting on the requested day.
C27_ListSorted ==
    (q.op = "getAppointmentsByDoctorAndDate" /\ q.done)
    => LET r == q.result
       IN /\ \A i \in 1..(Len(r) - 1) : r[i].start <= r[i + 1].start
          /\ \A i \in 1..Len(r) :
                /\ r[i].doctorId = q.doctorId
                /\ DateString(r[i].start) = DateString(q.date)

\* A call returned two appointments that the store holds in the opposite
\* order.
C27_Witness ==
    /\ q.op = "getAppointmentsByDoctorAndDate" /\ q.done
    /\ Len(q.result) = 2
    /\ q.result[1].start < q.result[2].start
    /\ appts[1].start > appts[2].start

----------------------------------------------------------------------------
(* Concurrent cancellation, success and lock release                       *)

\* C28: of two cancelAppointment calls on one BOOKED appointment, under
\* every interleaving exactly one succeeds and the other ends with
\* "Appointment is already cancelled".
C28_OneCancelWins ==
    \A k1 \in Cancels, k2 \in Cancels :
        ( /\ k1 # k2
          /\ cpc[k1] = "done" /\ cpc[k2] = "done"
          /\ cid[k1] = cid[k2]
          /\ cid[k1] \in Ids )
        => {cresult[k1], cresult[k2]}
             = {"Cancelled", "Appointment is already cancelled"}

\* C29: when bookAppointment returns an appointment, a row with that id,
\* the requested doctor, patient, start and end and status BOOKED has been
\* committed; success is never reported for a booking that is not in the
\* store.
C29_SuccessMeansCommitted ==
    \A c \in Calls :
        result[c] = "Booked"
        => /\ txn[c] = "committed"
           /\ \E i \in Ids :
                 /\ appts[i] = doc[c]
                 /\ appts[i].doctorId = data[c].doctorId
                 /\ appts[i].patientId = data[c].patientId
                 /\ appts[i].start = data[c].start
                 /\ appts[i].end = data[c].end
                 /\ appts[i].status = "BOOKED"

\* A call returned its appointment in a run in which a storage operation
\* of another call failed.
C29_Witness ==
    \E c \in Calls, b \in Calls :
        /\ Finished(c) /\ result[c] = "Booked"
        /\ Finished(b) /\ fault[b] \cap TxnOps # {}

\* No lock document created by call c exists.
NoLockOf(c) == \A l \in locks : l.owner # c

----------------------------------------------------------------------------
(* The booking lock under TTL expiry                                       *)

\* Call c is between its BookingLock.create and its BookingLock.deleteOne.
InSection(c) ==
    lockAcquired[c] /\ pc[c] \in {"check", "create", "commit", "release"}

\* The unique index: no two lock documents have the same lockKey.
LockKeysUnique ==
    \A l1 \in locks, l2 \in locks : l1.lockKey = l2.lockKey => l1 = l2

\* C31: at any time at most one in-flight call is inside the lock-
\* protected section of a given lock key, also when the TTL index removes
\* a lock document while its holder's transaction is still running.
C31_MutualExclusion ==
    \A c1 \in Calls, c2 \in Calls :
        (c1 # c2 /\ InSection(c1) /\ InSection(c2))
        => LockKeyOf(c1) # LockKeyOf(c2)

\* C32: the lock release of a call removes only the lock document this
\* call created, never the one of another in-flight call that acquired
\* the same key.
C32_ReleaseOnlyOwnLock ==
    [][\A c \in Calls :
          (pc[c] = "release" /\ pc'[c] = "done")
          => \A l \in locks \ locks' : l.owner = c]_vars

----------------------------------------------------------------------------
(* Availability and booking                                                *)

\* Call c asked for a slot that the first getAvailableSlots call returned
\* for its doctor and that still starts in the future.
BooksOfferedSlot(c) ==
    /\ q.op = "getAvailableSlots" /\ q.done
    /\ pc[c] # "idle"
    /\ data[c].doctorId = q.doctorId
    /\ <<data[c].start, data[c].end>> \in FutureSlots(q.result)

\* C33: when getAvailableSlots returned a slot that still starts in the
\* future and no other booking of the doctor commits in between,
\* bookAppointment for the doctor and exactly that slot succeeds.
C33_OfferedSlotBookable ==
    \A c \in Calls :
        (BooksOfferedSlot(c) /\ Finished(c)) => result[c] = "Booked"

\* The same for a server whose local time is UTC.
OfferedSlotBookableInUTC == (tz = 0) => C33_OfferedSlotBookable

\* Call c booked an appointment, call k cancelled that appointment, and
\* getAvailableSlots ran before the one and after the other.
BookedThenCancelled(c, k) ==
    /\ q.op = "getAvailableSlots" /\ q.again
    /\ Finished(c) /\ result[c] = "Booked"
    /\ cpc[k] = "done" /\ cresult[k] = "Cancelled"
    /\ cid[k] \in Ids
    /\ appts[cid[k]].patientId = c
    /\ appts[cid[k]].createdAt = doc[c].createdAt

\* C34: for any doctor, day and slot duration, getAvailableSlots after a
\* successful bookAppointment(x) followed by a successful
\* cancelAppointment(x) returns what it returned before the booking.
C34_BookCancelRestores ==
    \A c \in Calls, k \in Cancels :
        BookedThenCancelled(c, k) => q.after = q.result

\* The round trip happened for an appointment that covers a slot the
\* first query returned, for the doctor of the query.
C34_Witness ==
    \E c \in Calls, k \in Cancels :
        /\ BookedThenCancelled(c, k)
        /\ \E j \in DOMAIN q.result :
              slotsOverlap(q.result[j].start, q.result[j].end,
                           data[c].start, data[c].end)
        /\ Len(appts) = 2

----------------------------------------------------------------------------
(* Termination of the slot grid                                            *)

\* C35: getAvailableSlots terminates and returns a finite list for every
\* slot duration the controller can pass, 0 and negative values included.
C35_GridTerminates ==
    <>(q.pc = "returned")

\* With a slot duration of one minute or more the loop returns.
PositiveDurationReturns ==
    (q.slotMinutes > 0) => <>(q.pc = "returned")

\* What the loop returns is what the operator generateTimeSlots gives.
LoopAgreesWithOperator ==
    q.pc = "returned"
    => q.slots = generateTimeSlots(q.start, q.end, q.slotMinutes)

\* With a slot duration of 0 or less the loop never returns.
NonPositiveDurationNeverReturns ==
    (q.slotMinutes <= 0) => q.pc # "returned"

----------------------------------------------------------------------------
(* The overlap query and the overlap predicate                             *)

\* BOOKED appointments of the doctor of call c that slotsOverlap finds
\* overlapping the requested range.
OverlappingBooked(c) ==
    { i \in Ids :
        /\ appts[i].doctorId = data[c].doctorId
        /\ appts[i].status = "BOOKED"
        /\ slotsOverlap(data[c].start, data[c].end,
                        appts[i].start, appts[i].end) }

\* C36: checkOverlap returns a document iff some appointment of the
\* requested doctor with status BOOKED overlaps the requested range by
\* slotsOverlap; it returns such a document then, and null otherwise, so
\* never a CANCELLED appointment or one of another doctor.
C36_OverlapQueryAgrees ==
    [][\A c \in Calls :
          (pc[c] = "check" /\ pc'[c] # "check")
          => /\ (overlap'[c] # NULL) <=> (OverlappingBooked(c) # {})
             /\ (overlap'[c] # NULL)
                  => /\ overlap'[c].id \in OverlappingBooked(c)
                     /\ overlap'[c].doc = appts[overlap'[c].id]]_vars

\* One call got a document from checkOverlap; another got null while the
\* store held a BOOKED appointment of the other doctor overlapping its
\* range.
C36_Witness ==
    \E c \in Calls, b \in Calls :
        /\ overlap[c] # NULL
        /\ pc[b] \in {"create", "commit"} /\ overlap[b] = NULL
        /\ \E i \in Ids :
              /\ appts[i].doctorId # data[b].doctorId
              /\ appts[i].status = "BOOKED"
              /\ slotsOverlap(data[b].start, data[b].end,
                              appts[i].start, appts[i].end)

\* C37: for intervals with start1 < end1 and start2 < end2 over integer
\* instants, slotsOverlap is true iff the half-open intervals
\* [start1, end1) and [start2, end2) share an instant t.
C37_OverlapIffSharedInstant ==
    ov.done =>
      ( ov.res <=> \E t \in Instants : /\ ov.start1 <= t /\ t < ov.end1
                                       /\ ov.start2 <= t /\ t < ov.end2 )

\* The predicate has been evaluated on two intervals that share exactly
\* one instant: the second starts before the first and ends one instant
\* after the first starts.
C37_Witness ==
    /\ ov.done /\ ov.res
    /\ ov.start2 < ov.start1
    /\ ov.end2 = ov.start1 + 1
    /\ ov.end2 < ov.end1

----------------------------------------------------------------------------
(* The validators and the schema checks                                    *)

\* C38: every range the validators of bookAppointment accept is accepted
\* by the checks of the Appointment schema at Appointment.create, so the
\* insert of the booking transaction never fails on a validation ground.
C38_InsertNeverFailsValidation ==
    \A c \in Calls :
        /\ result[c] # "MongooseValidationError"
        /\ pc[c] = "create" => SchemaValidate(data[c].start, data[c].end)

\* With the server at UTC, a range that the validators accept and that
\* starts later than the clock reads is accepted by the schema checks.
InsertValidWhenStartInFuture ==
    \A c \in Calls :
        (pc[c] = "create" /\ data[c].start > now)
        => SchemaValidate(data[c].start, data[c].end)

====
